---- MODULE Spec2Model ----
(***************************************************************************)
(* ERI data import (cgt_calc/parsers/eri/data_import.py): the dispatcher   *)
(* loop over ERI_PARSERS, validate_and_remove_duplicates, the rewrite of   *)
(* the resource file and the directory walk of eri_import_from_path.       *)
(*                                                                         *)
(* Prices are Decimal values, counted here in units of 0.00005 (half the   *)
(* tolerance handed to approx_equal).  A date is a record of year, month   *)
(* and day.  A resource file is the sequence of its csv lines; the empty   *)
(* sequence is a file that does not exist or holds nothing.                *)
(***************************************************************************)
EXTENDS Integers, Sequences, FiniteSets, TLC

\* ------------------------------------------------------------------ bounds
\* Parsed records handed out by the parsers over a whole behaviour.
MaxRecords == 2
\* Prices: 1.2300, 1.2301 and the MaxPriceStep prices that follow 1.2301 in
\* steps of 0.00005.
MaxPriceStep == 1

\* ---------------------------------------------------------------- universe
Isins == {"GB0001", "GB0002"}
Currencies == {"GBP"}
Dates == {[year |-> 2023, month |-> m, day |-> 1] : m \in {1, 3}}
StoreNames == {"blackrock.csv"}

\* Decimal("0.0001"), in units of 0.00005
Tolerance == 2

\* 1.2300 is 24600 units of 0.00005
Prices == {24600} \cup {24600 + Tolerance + k : k \in 0..MaxPriceStep}

\* The registry: parsers are tried in the order of this list.  The
\* repository registers BlackrockParser; the second entry stands for a
\* parser registered behind it.
ERI_PARSERS == <<"BlackrockParser", "NextParser">>

\* EriTransaction: the fields the import reads and writes.
EriTransaction(date, isin, price, currency) ==
    [date |-> date, isin |-> isin, price |-> price, currency |-> currency]

Transactions ==
    {EriTransaction(d, i, p, c) : d \in Dates, i \in Isins, p \in Prices, c \in Currencies}

\* EriParserOutput
EriParserOutput(transactions, output_file_name) ==
    [transactions |-> transactions, output_file_name |-> output_file_name]

\* Python's None, as the value of `data`.
None == [none |-> TRUE]

SeqsUpTo(S, n) == UNION {[1..k -> S] : k \in 0..n}

Abs(x) == IF x < 0 THEN -x ELSE x

\* ------------------------------------------------------------- conversions
\* date.strftime(RAW_DATE_FORMAT): the text fields of a date.
DateText(date) == <<date.year, date.month, date.day>>

\* The date a text parses to.
ParseDate(text) == [year |-> text[1], month |-> text[2], day |-> text[3]]

\* str(Decimal): the whole part and the decimals, in units of 0.00005.
PriceText(price) == <<price \div 20000, price % 20000>>

\* Decimal(text)
ParsePrice(text) == text[1] * 20000 + text[2]

\* The header line of a resource file.
COLUMNS == <<"ISIN", "Date", "Currency", "Price">>

\* One csv line of a transaction, in the column order of the writer.
DataRow(transaction) ==
    <<transaction.isin, DateText(transaction.date), transaction.currency,
      PriceText(transaction.price)>>

\* The transaction a csv line holds.
ParseRow(row) ==
    EriTransaction(ParseDate(row[2]), row[1], ParsePrice(row[4]), row[3])

\* read_eri_raw: the transactions of a resource file, in file order; nothing
\* for a file that does not exist or holds no line.
read_eri_raw(lines) ==
    IF lines = <<>> THEN <<>>
    ELSE [k \in 1..(Len(lines) - 1) |-> ParseRow(lines[k + 1])]

\* writer.writerows([COLUMNS, *data_rows])
FileLines(transactions) ==
    <<COLUMNS>> \o [k \in 1..Len(transactions) |-> DataRow(transactions[k])]

\* --------------------------------------------------------------- the merge
\* approx_equal(val_a, val_b, tolerance)
approx_equal(val_a, val_b, tolerance) == Abs(val_a - val_b) <= tolerance

\* datetime.date comparison
DateLE(a, b) ==
    \/ a.year < b.year
    \/ a.year = b.year /\ a.month < b.month
    \/ a.year = b.year /\ a.month = b.month /\ a.day <= b.day

\* list.sort is stable: an element goes behind every element whose key is
\* not greater than its own.
\* Variant: the element goes in front of the elements with an equal key.
RECURSIVE Insert_before(_, _)
Insert_before(sorted, t) ==
    IF sorted = <<>> THEN <<t>>
    ELSE IF DateLE(t.date, Head(sorted).date)
         THEN <<t>> \o sorted
         ELSE <<Head(sorted)>> \o Insert_before(Tail(sorted), t)

RECURSIVE Insert(_, _)
Insert(sorted, t) ==
    IF sorted = <<>> THEN <<t>>
    ELSE IF DateLE(Head(sorted).date, t.date)
         THEN <<Head(sorted)>> \o Insert(Tail(sorted), t)
         ELSE <<t>> \o sorted

RECURSIVE SortFrom(_, _)
SortFrom(sorted, rest) ==
    IF rest = <<>> THEN sorted
    ELSE SortFrom(Insert(sorted, Head(rest)), Tail(rest))

\* Variant: the result is returned in the order of the loop.
SortByDate_unsorted(result) == result

\* result.sort(key=lambda t: t.date)
SortByDate(result) == SortFrom(<<>>, result)

\* key = (transaction.isin, transaction.date)
Key(transaction) == <<transaction.isin, transaction.date>>

\* Variant: prices are taken for equal only when closer than the tolerance.
LoopBody_strict(acc, transaction) ==
    LET key == Key(transaction) IN
    IF key \in DOMAIN acc.transaction_index
    THEN IF Abs(acc.transaction_index[key].price - transaction.price) < Tolerance
         THEN acc
         ELSE [acc EXCEPT !.raised = TRUE]
    ELSE [transaction_index |-> acc.transaction_index @@ (key :> transaction),
          result |-> Append(acc.result, transaction),
          raised |-> FALSE]

\* Variant: a duplicate within the tolerance is appended like a new record.
LoopBody_nodedup(acc, transaction) ==
    LET key == Key(transaction) IN
    IF /\ key \in DOMAIN acc.transaction_index
       /\ ~approx_equal(acc.transaction_index[key].price, transaction.price, Tolerance)
    THEN [acc EXCEPT !.raised = TRUE]
    ELSE [transaction_index |-> [k \in DOMAIN acc.transaction_index \cup {key} |->
                                    IF k = key THEN transaction
                                    ELSE acc.transaction_index[k]],
          result |-> Append(acc.result, transaction),
          raised |-> FALSE]

\* Variant: a duplicate within the tolerance takes the place of the record
\* seen first.
LoopBody_lastWins(acc, transaction) ==
    LET key == Key(transaction) IN
    IF key \in DOMAIN acc.transaction_index
    THEN IF approx_equal(acc.transaction_index[key].price, transaction.price, Tolerance)
         THEN [transaction_index |-> [acc.transaction_index EXCEPT ![key] = transaction],
               result |-> [k \in DOMAIN acc.result |->
                              IF Key(acc.result[k]) = key THEN transaction
                              ELSE acc.result[k]],
               raised |-> FALSE]
         ELSE [acc EXCEPT !.raised = TRUE]
    ELSE [transaction_index |-> acc.transaction_index @@ (key :> transaction),
          result |-> Append(acc.result, transaction),
          raised |-> FALSE]

\* One pass of the for loop: acc holds transaction_index, result and whether
\* InvalidTransactionError was raised.
LoopBody(acc, transaction) ==
    LET key == Key(transaction) IN
    IF key \in DOMAIN acc.transaction_index
    THEN IF approx_equal(acc.transaction_index[key].price, transaction.price, Tolerance)
         THEN acc
         ELSE [acc EXCEPT !.raised = TRUE]
    ELSE [transaction_index |-> acc.transaction_index @@ (key :> transaction),
          result |-> Append(acc.result, transaction),
          raised |-> FALSE]

RECURSIVE Loop(_, _)
Loop(acc, transactions) ==
    IF transactions = <<>> \/ acc.raised THEN acc
    ELSE Loop(LoopBody(acc, Head(transactions)), Tail(transactions))

\* validate_and_remove_duplicates: raised, or the sorted result.
validate_and_remove_duplicates(transactions) ==
    LET acc == Loop([transaction_index |-> [k \in {} |-> k], result |-> <<>>,
                     raised |-> FALSE], transactions)
    IN  IF acc.raised THEN [raised |-> TRUE, result |-> acc.result]
        ELSE [raised |-> FALSE, result |-> SortByDate(acc.result)]

\* ------------------------------------------------------------------- state
VARIABLES
    store,        \* the resource files: store name -> csv lines
    pc,           \* "idle", "scan", "parse", "open", "write", "raised"
    unreached,    \* history: the call ended with candidate files not reached
    file,         \* the file being imported: what the parsers made of it
    parser_i,     \* position of the dispatcher loop in ERI_PARSERS
    data,         \* the value of `data` in eri_import_from_file
    transactions, \* the merged transactions about to be written
    storeBefore,  \* history: the resource files when the import started
    outcome,      \* history: how the import of the file ended
    prevOutcome,  \* history: how the last import of the same file ended
    prevData,     \* history: the output of the last import of the same file
    parseCalls,   \* history: parsers whose parse was called for this file
    parsed        \* history: records handed out by parsers so far

vars == <<store, pc, unreached, file, parser_i, data, transactions,
          storeBefore, outcome, prevOutcome, prevData, parseCalls, parsed>>

NumParsers == Len(ERI_PARSERS)

\* What a parser makes of a file: it declines, accepts or raises.
Responses == {"none", "output", "fatal"}

\* A file is known by what the parsers called on it returned (responses, in
\* the order of the calls).  When the file of the import before is imported
\* once more, replay holds the responses of that import and same is TRUE:
\* the parsers return again what they returned then.
NewFile == [responses |-> <<>>, replay |-> <<>>, same |-> FALSE]

Init ==
    /\ store = [s \in StoreNames |-> <<>>]
    /\ pc = "idle"
    /\ unreached = FALSE
    /\ file = NewFile
    /\ parser_i = 1
    /\ data = None
    /\ transactions = <<>>
    /\ storeBefore = store
    /\ outcome = "none"
    /\ prevOutcome = "none"
    /\ prevData = None
    /\ parseCalls = <<>>
    /\ parsed = 0

\* ----------------------------------------------------------------- actions
\* bool(data): None is false; an EriParserOutput defines neither __bool__
\* nor __len__, so every instance is true, whatever its transactions are.
Truth(value) == value # None

\* eri_import_from_path is called with a file, or with a directory whose
\* candidate files are its regular files whose name does not start with a
\* dot.  A call that ended with an error is followed by the next call.
StartRun ==
    /\ pc \in {"idle", "raised"}
    /\ unreached' = FALSE
    /\ pc' = "scan"
    /\ UNCHANGED <<store, file, parser_i, data, transactions, storeBefore,
                   outcome, prevOutcome, prevData, parseCalls, parsed>>

\* The walk yields its next candidate, which goes to eri_import_from_file: a
\* file not seen before, or the file of the import before once more.
NextFile ==
    /\ pc = "scan"
    /\ \/ /\ file' = NewFile
          /\ prevData' = None
          /\ prevOutcome' = "none"
       \/ /\ outcome # "none"
          /\ file' = [responses |-> <<>>, replay |-> file.responses, same |-> TRUE]
          /\ prevData' = data
          /\ prevOutcome' = outcome
    /\ parser_i' = 1
    /\ parseCalls' = <<>>
    /\ data' = None
    /\ transactions' = <<>>
    /\ storeBefore' = store
    /\ outcome' = "running"
    /\ pc' = "parse"
    /\ UNCHANGED <<store, unreached, parsed>>

\* The walk yields no further candidate: eri_import_from_path returns.
Return ==
    /\ pc = "scan"
    /\ pc' = "idle"
    /\ UNCHANGED <<store, unreached, file, parser_i, data, transactions,
                   storeBefore, outcome, prevOutcome, prevData, parseCalls,
                   parsed>>

\* The parser at parser_i may return r for this file.
MayReturn(r) ==
    parser_i <= Len(file.replay) => file.replay[parser_i] = r

\* parser.parse(path) was called and returned r.
Called(r) ==
    /\ parseCalls' = Append(parseCalls, parser_i)
    /\ file' = [file EXCEPT !.responses = Append(@, r)]

\* parser.parse(path) returns None: the loop goes on to the next parser, and
\* past the last one the file is left with a warning.
ParseDecline ==
    /\ pc = "parse"
    /\ MayReturn("none")
    /\ Called("none")
    /\ data' = None
    /\ IF parser_i < NumParsers
       THEN /\ parser_i' = parser_i + 1
            /\ UNCHANGED <<pc, outcome>>
       ELSE /\ pc' = "scan"
            /\ outcome' = "no_parser"
            /\ UNCHANGED parser_i
    /\ UNCHANGED <<store, unreached, transactions, storeBefore, prevOutcome,
                   prevData, parsed>>

\* An exception leaves eri_import_from_file.  Neither the loop over the
\* candidates nor eri_import_from_path catches it: the call ends, whether or
\* not the walk had candidates it did not reach.
Raise ==
    /\ pc' = "raised"
    /\ unreached' \in BOOLEAN

\* parser.parse(path) raises.
ParseFatal ==
    /\ pc = "parse"
    /\ MayReturn("fatal")
    /\ Called("fatal")
    /\ outcome' = "parse_error"
    /\ Raise
    /\ UNCHANGED <<store, parser_i, data, transactions, storeBefore,
                   prevOutcome, prevData, parsed>>

\* What parse returns for an accepted file: the output of the last import
\* when the file is the same, any output within the bounds otherwise.
Outputs ==
    IF file.same THEN {prevData}
    ELSE {EriParserOutput(t, o) :
            t \in SeqsUpTo(Transactions, MaxRecords - parsed), o \in StoreNames}

\* Variant: the records accepted before the conflict are written out.
OnConflict_partial(merged, name) ==
    /\ outcome' = "conflict"
    /\ Raise
    /\ store' = [store EXCEPT ![name] = FileLines(merged.result)]
    /\ UNCHANGED transactions

\* InvalidTransactionError leaves validate_and_remove_duplicates and
\* eri_import_from_file: the resource file `name` is never opened for writing.
OnConflict(merged, name) ==
    /\ outcome' = "conflict"
    /\ Raise
    /\ UNCHANGED <<store, transactions>>

\* parser.parse(path) returns an output: assert data, read the resource file,
\* merge, and go on to the rewrite of the file unless the merge raised.
ParseAccept ==
    /\ pc = "parse"
    /\ MayReturn("output")
    /\ Called("output")
    /\ \E d \in Outputs :
          LET merged == validate_and_remove_duplicates(
                            read_eri_raw(store[d.output_file_name]) \o d.transactions)
          IN  /\ data' = d
              /\ parsed' = IF file.same THEN parsed ELSE parsed + Len(d.transactions)
              /\ IF ~Truth(d)
                 THEN /\ outcome' = "assertion"
                      /\ Raise
                      /\ UNCHANGED <<store, transactions>>
                 ELSE IF merged.raised
                 THEN OnConflict(merged, d.output_file_name)
                 ELSE /\ transactions' = merged.result
                      /\ pc' = "open"
                      /\ UNCHANGED <<store, outcome, unreached>>
    /\ UNCHANGED <<parser_i, storeBefore, prevOutcome, prevData>>

\* output_path.open("w"): the resource file is created or cut to nothing.
OpenStore ==
    /\ pc = "open"
    /\ store' = [store EXCEPT ![data.output_file_name] = <<>>]
    /\ pc' = "write"
    /\ UNCHANGED <<unreached, file, parser_i, data, transactions, storeBefore,
                   outcome, prevOutcome, prevData, parseCalls, parsed>>

\* Variant: the loop over the parsers goes on after the file is written.
WriteRows_noreturn ==
    /\ pc = "write"
    /\ store' = [store EXCEPT ![data.output_file_name] = FileLines(transactions)]
    /\ outcome' = "ok"
    /\ IF parser_i < NumParsers
       THEN pc' = "parse" /\ parser_i' = parser_i + 1
       ELSE pc' = "scan" /\ UNCHANGED parser_i
    /\ UNCHANGED <<unreached, file, data, transactions, storeBefore, prevOutcome,
                   prevData, parseCalls, parsed>>

\* writer.writerows and the close of the file succeed; return.
WriteRows ==
    /\ pc = "write"
    /\ store' = [store EXCEPT ![data.output_file_name] = FileLines(transactions)]
    /\ outcome' = "ok"
    /\ pc' = "scan"
    /\ UNCHANGED <<unreached, file, parser_i, data, transactions, storeBefore,
                   prevOutcome, prevData, parseCalls, parsed>>

\* An OSError while the lines are written or flushed: some leading part of
\* the lines has reached the file, and the error leaves the import.
WriteFail ==
    /\ pc = "write"
    /\ \E k \in 0..Len(transactions) :
          store' = [store EXCEPT ![data.output_file_name] =
                        SubSeq(FileLines(transactions), 1, k)]
    /\ outcome' = "write_error"
    /\ Raise
    /\ UNCHANGED <<file, parser_i, data, transactions, storeBefore,
                   prevOutcome, prevData, parseCalls, parsed>>

Next ==
    \/ StartRun
    \/ NextFile
    \/ Return
    \/ ParseDecline
    \/ ParseFatal
    \/ ParseAccept
    \/ OpenStore
    \/ WriteRows
    \/ WriteFail

Spec == Init /\ [][Next]_vars

\* ------------------------------------------------------------- properties
\* The resource file the current import merges into, before and now, and the
\* list handed to validate_and_remove_duplicates.
Target == data.output_file_name
Before == read_eri_raw(storeBefore[Target])
Now == read_eri_raw(store[Target])
Incoming == data.transactions
Concat == Before \o Incoming

\* A parser accepted the current file and the merge raised nothing.
MergeDone == Truth(data) /\ outcome \in {"running", "ok", "write_error"}

\* A parser accepted the current file and the merge ran, raising or not.
MergeTried == Truth(data) /\ outcome \in {"running", "ok", "write_error", "conflict"}

Indexes(seq) == 1..Len(seq)

\* The position of the first record of seq with the key of seq[j].
FirstWithKey(seq, j) ==
    CHOOSE i \in 1..j :
        /\ Key(seq[i]) = Key(seq[j])
        /\ \A h \in 1..(i - 1) : Key(seq[h]) # Key(seq[j])

\* The position of the first record of seq with this key.
IndexOfKey(seq, key) ==
    CHOOSE i \in Indexes(seq) :
        /\ Key(seq[i]) = key
        /\ \A h \in 1..(i - 1) : Key(seq[h]) # key

NoDuplicateKeys(seq) ==
    \A i, j \in Indexes(seq) : Key(seq[i]) = Key(seq[j]) => i = j

NonDecreasing(seq) ==
    \A i, j \in Indexes(seq) : i < j => DateLE(seq[i].date, seq[j].date)

\* The first record of every key of seq, as a set.
FirstRecords(seq) == {seq[FirstWithKey(seq, j)] : j \in Indexes(seq)}

\* Some record differs from the first record of its key by more than 0.0001.
BeyondTolerance(seq) ==
    \E j \in Indexes(seq) :
        LET d == seq[j].price - seq[FirstWithKey(seq, j)].price
        IN  d > Tolerance \/ -d > Tolerance

\* C1: when the merge of a file raises the conflict error, every resource
\* file holds exactly what it held before the import started.
C1_NoPartialMerge ==
    outcome = "conflict" => store = storeBefore

\* C1 witness: a conflict in a file of two or more records, one of which has a
\* key that is new to the store and comes before the conflicting record.
C1_Witness ==
    /\ outcome = "conflict"
    /\ Len(Incoming) >= 2
    /\ \A i \in Indexes(Before) : Key(Before[i]) # Key(Incoming[1])

C3_KeyUniqueness ==
    /\ \A s \in StoreNames : NoDuplicateKeys(read_eri_raw(store[s]))
    /\ NoDuplicateKeys(transactions)

\* C3 witness: a file that holds the same key twice was imported.
C3_Witness ==
    /\ outcome = "ok"
    /\ Len(Incoming) >= 2
    /\ Key(Incoming[1]) = Key(Incoming[2])
    /\ Len(Now) >= 1

\* C4: the records of every resource file are non-decreasing by date, and
\* records of a merge result with the same date stand in the order they had
\* in the list existing-then-incoming.
C4_SortInvariant ==
    /\ \A s \in StoreNames : NonDecreasing(read_eri_raw(store[s]))
    /\ MergeDone =>
          LET list == Concat IN
          /\ NonDecreasing(transactions)
          /\ \A i, j \in Indexes(transactions) :
                (i < j /\ transactions[i].date = transactions[j].date) =>
                    IndexOfKey(list, Key(transactions[i]))
                        < IndexOfKey(list, Key(transactions[j]))

\* C4 witness: a written merge in which an incoming record is older than the
\* last record the store held, so that the sort had to move it forward.
C4_Witness ==
    /\ outcome = "ok"
    /\ Len(Before) >= 1
    /\ \E i \in Indexes(Incoming) : ~DateLE(Before[Len(Before)].date, Incoming[i].date)

\* C5: when a file whose import succeeded is imported once more, the merge
\* raises no conflict, and once the second import has succeeded every
\* resource file holds exactly the lines it held after the first import.
C5_Idempotence ==
    (file.same /\ prevOutcome = "ok") =>
        /\ outcome # "conflict"
        /\ outcome = "ok" => store = storeBefore

\* C5 witness: the second import of a file of two records succeeded.
C5_Witness ==
    /\ file.same
    /\ prevOutcome = "ok"
    /\ outcome = "ok"
    /\ Len(Incoming) >= 2
    /\ Len(Now) >= 2

\* C6: after a successful import, every record the resource file held before
\* is still there with its price, and no record of its key has another price.
C6_AppendOnly ==
    outcome = "ok" =>
        LET old == Before
            new == Now
        IN  \A i \in Indexes(old) :
                /\ \E j \in Indexes(new) : new[j] = old[i]
                /\ \A j \in Indexes(new) :
                      Key(new[j]) = Key(old[i]) => new[j].price = old[i].price

\* C6 witness: a successful import brought a record whose key was in the
\* store with another price.
C6_Witness ==
    /\ outcome = "ok"
    /\ \E i \in Indexes(Before) : \E j \in Indexes(Incoming) :
          /\ Key(Incoming[j]) = Key(Before[i])
          /\ Incoming[j].price # Before[i].price

\* C7: for one file, parse is called on the parsers in list order, each call
\* but the last returned None, and the output that is merged is the one the
\* last call returned.
C7_ShortCircuit ==
    /\ Len(file.responses) = Len(parseCalls)
    /\ \A k \in Indexes(parseCalls) :
          /\ parseCalls[k] = k
          /\ k < Len(parseCalls) => file.responses[k] = "none"
    /\ MergeTried =>
          /\ parseCalls # <<>>
          /\ file.responses[Len(parseCalls)] = "output"

\* C7 witness: the first of several parsers accepted the file, the import
\* went through and parse was called on no other parser.
C7_Witness ==
    /\ outcome = "ok"
    /\ NumParsers > 1
    /\ parseCalls = <<1>>

\* C8 (as claimed): no call of eri_import_from_path ends with an error while
\* candidate files of the directory have not been reached.
C8_RemainingFilesProcessed ==
    ~(pc = "raised" /\ unreached)

\* C9 (as claimed): no import succeeds with an accepted output that holds no
\* record.
C9_ZeroRecordsNotSuccess ==
    ~(outcome = "ok" /\ Truth(data) /\ data.transactions = <<>>)

\* C10 (as claimed): every resource file holds the records it held before the
\* import or the complete merged result.
C10_NoPartialPersistence ==
    \A s \in StoreNames :
        \/ read_eri_raw(store[s]) = read_eri_raw(storeBefore[s])
        \/ /\ MergeDone
           /\ s = Target
           /\ store[s] = FileLines(transactions)

====
